---- MODULE Spec2Model ----
(***************************************************************************)
(* OrderService.create_order (blocking) and OrderServiceAsync.create_order  *)
(* (suspending at each await), each run against recording collaborators     *)
(* configured like the mocks of the unit tests: a return value or an error  *)
(* to raise.  One invocation of each service is driven with the same        *)
(* user_id, items and collaborator behaviour.                               *)
(***************************************************************************)
EXTENDS Integers, Sequences, FiniteSets, TLC

VARIABLES user_id, items, gateway, repo, audit, sync, async,
          last, tasks, page, loop

vars == <<user_id, items, gateway, repo, audit, sync, async,
          last, tasks, page, loop>>

(* ------------------------------ bounds --------------------------------- *)

MaxItems == 2
MaxPrice == 2
MaxClicks == 2
MaxCards == 3
MaxTasks == 2
MaxQty == 2

(* ------------------------------ data ----------------------------------- *)

\* Python's None, as dict.get returns it for an absent key.
None == "None"

UserIds == {1, 7}

\* An item is a dict with "price" and, optionally, "qty".
ItemValues ==
    {[price |-> p] : p \in 1..MaxPrice}
        \cup {[price |-> p, qty |-> q] : p \in 1..MaxPrice, q \in 1..MaxQty}

ItemLists == UNION {[1..n -> ItemValues] : n \in 0..MaxItems}

\* What authorize_payment may return: a dict with an optional "status" and an
\* optional "payment_id".
AuthResults ==
    { [status |-> "approved", payment_id |-> "pay_123"],
      [status |-> "approved", payment_id |-> "p1"],
      [status |-> "approved"],
      [status |-> "denied"],
      [status |-> "Approved", payment_id |-> "p1"],
      [payment_id |-> "p1"] }

\* What save_order may return: the persisted order.
Orders == { [id |-> 99, total |-> 25], [id |-> 2, total |-> 10] }

\* A collaborator either returns its configured value or raises its
\* configured error (return_value / side_effect of the mocks).
Returns(v) == [kind |-> "return", value |-> v]
Raises(e) == [kind |-> "raise", error |-> e]

GatewayBehaviours ==
    {Returns(a) : a \in AuthResults} \cup {Raises("TimeoutError: gateway timeout")}

RepoBehaviours ==
    {Returns(o) : o \in Orders} \cup {Raises("RuntimeError: db down")}

AuditBehaviours == {Returns(None), Raises("OSError: audit down")}

(* --------------------------- dict helpers ------------------------------ *)

\* d.get(k, default)
GetOr(d, k, default) == IF k \in DOMAIN d THEN d[k] ELSE default

\* d.get(k)
Get(d, k) == GetOr(d, k, None)

\* Binding a local of the invocation's frame: the name is unbound before.
Bind(inv, name, value) ==
    [k \in DOMAIN inv \cup {name} |-> IF k = name THEN value ELSE inv[k]]

Bound(inv, name) == name \in DOMAIN inv

(* ------------------------- recorded calls ------------------------------ *)

AuthorizeCall(uid, amount) ==
    [fn |-> "authorize_payment", user_id |-> uid, amount |-> amount]

SaveCall(uid, its, total, pid) ==
    [fn |-> "save_order", user_id |-> uid, items |-> its, total |-> total,
     payment_id |-> pid]

TrackCall(event, payload) ==
    [fn |-> "track", event |-> event, payload |-> payload]

Record(inv, c) == [inv EXCEPT !.calls = Append(@, c)]

(* ------------------------ leaving create_order ------------------------- *)

\* raise e: the invocation ends with error e.
Raise(inv, e) == [Bind(inv, "error", e) EXCEPT !.pc = "Failed"]

\* return v: the invocation ends with value v.
Return(inv, v) == [Bind(inv, "result", v) EXCEPT !.pc = "Completed"]

\* The frame of an invocation that has not run yet.
NewInvocation == [pc |-> "Start", calls |-> <<>>]

(* ------------------------------ total ---------------------------------- *)

\* Faulty variant of ItemAmount: the quantity is ignored.
ItemAmount_price_only(i) == i["price"]

\* i["price"] * i.get("qty", 1)
ItemAmount(i) == i["price"] * GetOr(i, "qty", 1)

\* sum(...): a left fold from 0.
RECURSIVE SumFrom(_, _)
SumFrom(acc, its) ==
    IF its = <<>> THEN acc ELSE SumFrom(acc + ItemAmount(Head(its)), Tail(its))

OrderTotal(its) == SumFrom(0, its)

(* ------------- OrderService.create_order (synchronous) ----------------- *)
\* Each operator maps the frame of the invocation to the frame after the
\* next stretch of code, up to and including one collaborator call.

\* Faulty variant of create_order_total: the emptiness check is missing.
create_order_total_unchecked(inv, its) ==
    [Bind(inv, "total", OrderTotal(its)) EXCEPT !.pc = "TotalComputed"]

\* Faulty variant of create_order_total: the empty list is rejected with
\* another error class.
create_order_total_type_error(inv, its) ==
    IF Len(its) = 0
    THEN Raise(inv, "TypeError: items cannot be empty")
    ELSE [Bind(inv, "total", OrderTotal(its)) EXCEPT !.pc = "TotalComputed"]

\* if not items: raise ValueError(...); total = sum(...)
create_order_total(inv, its) ==
    IF Len(its) = 0
    THEN Raise(inv, "ValueError: items cannot be empty")
    ELSE [Bind(inv, "total", OrderTotal(its)) EXCEPT !.pc = "TotalComputed"]

\* Faulty variant of create_order_authorize: a gateway error is caught and
\* handled as a denial.
create_order_authorize_error_as_denial(inv, uid, gw) ==
    LET called == Record(inv, AuthorizeCall(uid, inv.total))
        status == IF gw.kind = "raise" THEN None ELSE Get(gw.value, "status")
        auth == IF gw.kind = "raise" THEN [status |-> None] ELSE gw.value
    IN  [Bind(Bind(called, "auth", auth), "status", status)
           EXCEPT !.pc = IF status # "approved" THEN "Denied" ELSE "Approved"]

\* Faulty variant of create_order_authorize: a failed authorization is
\* retried once.
create_order_authorize_retry(inv, uid, gw) ==
    LET called == Record(inv, AuthorizeCall(uid, inv.total))
    IN  IF gw.kind = "raise"
        THEN Raise(Record(called, AuthorizeCall(uid, inv.total)), gw.error)
        ELSE LET status == Get(gw.value, "status")
             IN  [Bind(Bind(called, "auth", gw.value), "status", status)
                    EXCEPT !.pc = IF status # "approved" THEN "Denied"
                                                         ELSE "Approved"]

\* Faulty variant of create_order_authorize: the service remembers a denial
\* and denies the next order whatever the gateway answers.
create_order_authorize_sticky_denial(inv, uid, gw) ==
    LET called == Record(inv, AuthorizeCall(uid, inv.total))
    IN  IF gw.kind = "raise"
        THEN Raise(called, gw.error)
        ELSE LET status == Get(gw.value, "status")
                 denied == \/ status # "approved"
                           \/ last.sync = "PermissionError: payment not approved"
             IN  [Bind(Bind(called, "auth", gw.value), "status", status)
                    EXCEPT !.pc = IF denied THEN "Denied" ELSE "Approved"]

\* auth = self.gateway.authorize_payment(user_id=user_id, amount=total)
\* status = auth.get("status"); if status != "approved": ...
create_order_authorize(inv, uid, gw) ==
    LET called == Record(inv, AuthorizeCall(uid, inv.total))
    IN  IF gw.kind = "raise"
        THEN Raise(called, gw.error)
        ELSE LET status == Get(gw.value, "status")
             IN  [Bind(Bind(called, "auth", gw.value), "status", status)
                    EXCEPT !.pc = IF status # "approved" THEN "Denied"
                                                         ELSE "Approved"]

\* Faulty variant of create_order_denied: an error of track is swallowed.
create_order_denied_swallow(inv, uid, au) ==
    Raise(Record(inv, TrackCall("order_denied",
                                [user_id |-> uid, total |-> inv.total])),
          "PermissionError: payment not approved")

\* self.audit.track("order_denied", {...}); raise PermissionError(...)
create_order_denied(inv, uid, au) ==
    LET called == Record(inv, TrackCall("order_denied",
                                        [user_id |-> uid, total |-> inv.total]))
    IN  IF au.kind = "raise"
        THEN Raise(called, au.error)
        ELSE Raise(called, "PermissionError: payment not approved")

\* Faulty variant of create_order_save: a failed save is audited as a denial
\* before the error is raised again.
create_order_save_audit_failure(inv, uid, its, rp) ==
    IF ~ Bound(inv.auth, "payment_id")
    THEN Raise(inv, "KeyError: 'payment_id'")
    ELSE LET called == Record(inv, SaveCall(uid, its, inv.total,
                                            inv.auth["payment_id"]))
         IN  IF rp.kind = "raise"
             THEN Raise(Record(called,
                               TrackCall("order_denied",
                                         [user_id |-> uid, total |-> inv.total])),
                        rp.error)
             ELSE [Bind(called, "order", rp.value) EXCEPT !.pc = "Persisted"]

\* Faulty variant of create_order_save: the payment id is read with
\* auth.get("payment_id"), so a missing one is passed on as None.
create_order_save_get_payment_id(inv, uid, its, rp) ==
    LET called == Record(inv, SaveCall(uid, its, inv.total,
                                       Get(inv.auth, "payment_id")))
    IN  IF rp.kind = "raise"
        THEN Raise(called, rp.error)
        ELSE [Bind(called, "order", rp.value) EXCEPT !.pc = "Persisted"]

\* order = self.repo.save_order(..., payment_id=auth["payment_id"]): the
\* arguments are evaluated before the call, so a missing key raises first.
create_order_save(inv, uid, its, rp) ==
    IF ~ Bound(inv.auth, "payment_id")
    THEN Raise(inv, "KeyError: 'payment_id'")
    ELSE LET called == Record(inv, SaveCall(uid, its, inv.total,
                                            inv.auth["payment_id"]))
         IN  IF rp.kind = "raise"
             THEN Raise(called, rp.error)
             ELSE [Bind(called, "order", rp.value) EXCEPT !.pc = "Persisted"]

\* Faulty variant of create_order_created: the event carries the total the
\* repository echoed back instead of the computed one.
create_order_created_echoed_total(inv, au) ==
    LET called == Record(inv, TrackCall("order_created",
                                        [order_id |-> inv.order["id"],
                                         total |-> inv.order["total"]]))
    IN  IF au.kind = "raise"
        THEN Raise(called, au.error)
        ELSE Return(called, inv.order)

\* self.audit.track("order_created", {...}); return order
create_order_created(inv, au) ==
    LET called == Record(inv, TrackCall("order_created",
                                        [order_id |-> inv.order["id"],
                                         total |-> inv.total]))
    IN  IF au.kind = "raise"
        THEN Raise(called, au.error)
        ELSE Return(called, inv.order)

(* ----------- OrderServiceAsync.create_order (asynchronous) ------------- *)
\* An await is two steps: the call is made and the coroutine suspends, then
\* it resumes with what the collaborator returned or raised.

\* Faulty variant of async_create_order_total: the emptiness check is
\* missing.
async_create_order_total_unchecked(inv, its) ==
    [Bind(inv, "total", OrderTotal(its)) EXCEPT !.pc = "TotalComputed"]

\* if not items: raise ValueError(...); total = sum(...)
async_create_order_total(inv, its) ==
    IF Len(its) = 0
    THEN Raise(inv, "ValueError: items cannot be empty")
    ELSE [Bind(inv, "total", OrderTotal(its)) EXCEPT !.pc = "TotalComputed"]

\* self.gateway.authorize_payment(user_id=user_id, amount=total), awaited
async_create_order_call_authorize(inv, uid) ==
    [Record(inv, AuthorizeCall(uid, inv.total)) EXCEPT !.pc = "AwaitAuthorize"]

\* Faulty variant of async_create_order_resume_authorize: a gateway error is
\* wrapped in another error.
async_create_order_resume_authorize_wrapped(inv, gw) ==
    IF gw.kind = "raise"
    THEN Raise(inv, "RuntimeError: authorization failed")
    ELSE LET status == Get(gw.value, "status")
         IN  [Bind(Bind(inv, "auth", gw.value), "status", status)
                EXCEPT !.pc = IF status # "approved" THEN "Denied"
                                                     ELSE "Approved"]

\* Faulty variant of async_create_order_resume_authorize: the status is
\* compared without regard to case.
async_create_order_resume_authorize_any_case(inv, gw) ==
    IF gw.kind = "raise"
    THEN Raise(inv, gw.error)
    ELSE LET status == Get(gw.value, "status")
         IN  [Bind(Bind(inv, "auth", gw.value), "status", status)
                EXCEPT !.pc = IF status \notin {"approved", "Approved"}
                              THEN "Denied" ELSE "Approved"]

\* Faulty variant of async_create_order_resume_authorize: after a gateway
\* error the authorization is attempted again.
async_create_order_resume_authorize_again(inv, gw) ==
    IF gw.kind = "raise"
    THEN [inv EXCEPT !.pc = "TotalComputed", !.calls = <<>>]
    ELSE LET status == Get(gw.value, "status")
         IN  [Bind(Bind(inv, "auth", gw.value), "status", status)
                EXCEPT !.pc = IF status # "approved" THEN "Denied"
                                                     ELSE "Approved"]

\* auth = await ...; status = auth.get("status"); if status != "approved"
async_create_order_resume_authorize(inv, gw) ==
    IF gw.kind = "raise"
    THEN Raise(inv, gw.error)
    ELSE LET status == Get(gw.value, "status")
         IN  [Bind(Bind(inv, "auth", gw.value), "status", status)
                EXCEPT !.pc = IF status # "approved" THEN "Denied"
                                                     ELSE "Approved"]

\* self.audit.track("order_denied", {...}), awaited
async_create_order_call_denied(inv, uid) ==
    [Record(inv, TrackCall("order_denied",
                           [user_id |-> uid, total |-> inv.total]))
       EXCEPT !.pc = "AwaitTrackDenied"]

\* await ...; raise PermissionError("payment not approved")
async_create_order_resume_denied(inv, au) ==
    IF au.kind = "raise"
    THEN Raise(inv, au.error)
    ELSE Raise(inv, "PermissionError: payment not approved")

\* Faulty variant of async_create_order_call_save: the total is kept on the
\* service object, where the first task's value is found by every task.
async_create_order_call_save_shared_total(inv, uid, its) ==
    LET held == IF Bound(tasks[1].frame, "total") THEN tasks[1].frame.total
                                                  ELSE inv.total
    IN  IF ~ Bound(inv.auth, "payment_id")
        THEN Raise(inv, "KeyError: 'payment_id'")
        ELSE [Record(inv, SaveCall(uid, its, held, inv.auth["payment_id"]))
                EXCEPT !.pc = "AwaitSave"]

\* self.repo.save_order(..., payment_id=auth["payment_id"]), awaited
async_create_order_call_save(inv, uid, its) ==
    IF ~ Bound(inv.auth, "payment_id")
    THEN Raise(inv, "KeyError: 'payment_id'")
    ELSE [Record(inv, SaveCall(uid, its, inv.total, inv.auth["payment_id"]))
            EXCEPT !.pc = "AwaitSave"]

\* order = await ...
async_create_order_resume_save(inv, rp) ==
    IF rp.kind = "raise"
    THEN Raise(inv, rp.error)
    ELSE [Bind(inv, "order", rp.value) EXCEPT !.pc = "Persisted"]

\* Faulty variant of async_create_order_call_created: the event carries the
\* total the repository echoed back instead of the computed one.
async_create_order_call_created_echoed_total(inv) ==
    [Record(inv, TrackCall("order_created",
                           [order_id |-> inv.order["id"],
                            total |-> inv.order["total"]]))
       EXCEPT !.pc = "AwaitTrackCreated"]

\* self.audit.track("order_created", {...}), awaited
async_create_order_call_created(inv) ==
    [Record(inv, TrackCall("order_created",
                           [order_id |-> inv.order["id"], total |-> inv.total]))
       EXCEPT !.pc = "AwaitTrackCreated"]

\* Faulty variant of async_create_order_resume_created: an error of track
\* is swallowed and the order returned.
async_create_order_resume_created_swallow(inv, au) == Return(inv, inv.order)

\* await ...; return order
async_create_order_resume_created(inv, au) ==
    IF au.kind = "raise"
    THEN Raise(inv, au.error)
    ELSE Return(inv, inv.order)

(* --------------------------- the system -------------------------------- *)

\* No invocation has ended yet on either service.
NoOutcome == [sync |-> None, async |-> None]

\* No page is open and click_load_more_until_end has not been called.
NoPage == [cards |-> 0]
NotCalled == [pc |-> "not called"]

\* After construction: each service holds its three collaborators, and one
\* create_order(user_id, items) is about to run on each.
Init ==
    /\ user_id \in UserIds
    /\ items \in ItemLists
    /\ gateway \in GatewayBehaviours
    /\ repo \in RepoBehaviours
    /\ audit \in AuditBehaviours
    /\ sync = NewInvocation
    /\ async = NewInvocation
    /\ last = NoOutcome
    /\ tasks = <<>>
    /\ page = NoPage
    /\ loop = NotCalled

Environment == <<user_id, items, gateway, repo, audit>>

\* What one create_order invocation of Spec leaves alone besides the other
\* invocation: the outcome of the previous one, the concurrent tasks, and
\* the browser page with its load-more loop.
Elsewhere == <<last, tasks, page, loop>>

SyncTotal ==
    /\ sync.pc = "Start"
    /\ sync' = create_order_total(sync, items)
    /\ UNCHANGED <<Environment, async, Elsewhere>>

SyncAuthorize ==
    /\ sync.pc = "TotalComputed"
    /\ sync' = create_order_authorize(sync, user_id, gateway)
    /\ UNCHANGED <<Environment, async, Elsewhere>>

SyncDenied ==
    /\ sync.pc = "Denied"
    /\ sync' = create_order_denied(sync, user_id, audit)
    /\ UNCHANGED <<Environment, async, Elsewhere>>

SyncSave ==
    /\ sync.pc = "Approved"
    /\ sync' = create_order_save(sync, user_id, items, repo)
    /\ UNCHANGED <<Environment, async, Elsewhere>>

SyncCreated ==
    /\ sync.pc = "Persisted"
    /\ sync' = create_order_created(sync, audit)
    /\ UNCHANGED <<Environment, async, Elsewhere>>

AsyncTotal ==
    /\ async.pc = "Start"
    /\ async' = async_create_order_total(async, items)
    /\ UNCHANGED <<Environment, sync, Elsewhere>>

AsyncCallAuthorize ==
    /\ async.pc = "TotalComputed"
    /\ async' = async_create_order_call_authorize(async, user_id)
    /\ UNCHANGED <<Environment, sync, Elsewhere>>

AsyncResumeAuthorize ==
    /\ async.pc = "AwaitAuthorize"
    /\ async' = async_create_order_resume_authorize(async, gateway)
    /\ UNCHANGED <<Environment, sync, Elsewhere>>

AsyncCallDenied ==
    /\ async.pc = "Denied"
    /\ async' = async_create_order_call_denied(async, user_id)
    /\ UNCHANGED <<Environment, sync, Elsewhere>>

AsyncResumeDenied ==
    /\ async.pc = "AwaitTrackDenied"
    /\ async' = async_create_order_resume_denied(async, audit)
    /\ UNCHANGED <<Environment, sync, Elsewhere>>

AsyncCallSave ==
    /\ async.pc = "Approved"
    /\ async' = async_create_order_call_save(async, user_id, items)
    /\ UNCHANGED <<Environment, sync, Elsewhere>>

AsyncResumeSave ==
    /\ async.pc = "AwaitSave"
    /\ async' = async_create_order_resume_save(async, repo)
    /\ UNCHANGED <<Environment, sync, Elsewhere>>

AsyncCallCreated ==
    /\ async.pc = "Persisted"
    /\ async' = async_create_order_call_created(async)
    /\ UNCHANGED <<Environment, sync, Elsewhere>>

AsyncResumeCreated ==
    /\ async.pc = "AwaitTrackCreated"
    /\ async' = async_create_order_resume_created(async, audit)
    /\ UNCHANGED <<Environment, sync, Elsewhere>>

Next ==
    \/ SyncTotal
    \/ SyncAuthorize
    \/ SyncDenied
    \/ SyncSave
    \/ SyncCreated
    \/ AsyncTotal
    \/ AsyncCallAuthorize
    \/ AsyncResumeAuthorize
    \/ AsyncCallDenied
    \/ AsyncResumeDenied
    \/ AsyncCallSave
    \/ AsyncResumeSave
    \/ AsyncCallCreated
    \/ AsyncResumeCreated

Spec == Init /\ [][Next]_vars

\* The steps of the synchronous and of the asynchronous invocation.
SyncStep == SyncTotal \/ SyncAuthorize \/ SyncDenied \/ SyncSave \/ SyncCreated

AsyncStep ==
    \/ AsyncTotal
    \/ AsyncCallAuthorize \/ AsyncResumeAuthorize
    \/ AsyncCallDenied \/ AsyncResumeDenied
    \/ AsyncCallSave \/ AsyncResumeSave
    \/ AsyncCallCreated \/ AsyncResumeCreated

\* An invocation that can take a step eventually takes it: the interpreter
\* runs the next statement, the event loop resumes a coroutine whose awaited
\* collaborator call has returned or raised, and every such call does.
\* The item list is kept to one item at most here: its length decides nothing
\* but the emptiness check, and the fold over it is finite.
FairInit == Init /\ Len(items) <= 1

FairSpec ==
    FairInit /\ [][Next]_vars /\ WF_vars(SyncStep) /\ WF_vars(AsyncStep)

(* ----------------------- reading an invocation ------------------------- *)

Done(inv) == inv.pc \in {"Completed", "Failed"}

Failed(inv, e) == inv.pc = "Failed" /\ inv.error = e

\* How many calls of collaborator method fn the invocation has made.
Count(inv, fn) == Cardinality({k \in DOMAIN inv.calls : inv.calls[k].fn = fn})

\* The call history by name: the method, or the event for a track call.
History(inv) ==
    [k \in DOMAIN inv.calls |->
        IF inv.calls[k].fn = "track" THEN inv.calls[k].event ELSE inv.calls[k].fn]

NonEmpty == Len(items) > 0

ValueErrorEmpty == "ValueError: items cannot be empty"
PermissionDenied == "PermissionError: payment not approved"

GatewayReturned == gateway.kind = "return"
StatusApproved == GatewayReturned /\ Get(gateway.value, "status") = "approved"
StatusNotApproved == GatewayReturned /\ Get(gateway.value, "status") # "approved"
HasPaymentId == GatewayReturned /\ Bound(gateway.value, "payment_id")

(* ------------------- one invocation after another ---------------------- *)

\* How an ended invocation ended: its error, or "returned".
Outcome(inv) == IF inv.pc = "Failed" THEN inv.error ELSE "returned"

\* With both invocations ended, the caller reconfigures the collaborators
\* (the next element of a side_effect list, a new return_value) and calls
\* create_order again on the same two services with the same arguments.
NextCall ==
    /\ Done(sync) /\ Done(async)
    /\ last' = [sync |-> Outcome(sync), async |-> Outcome(async)]
    /\ gateway' \in GatewayBehaviours
    /\ repo' \in RepoBehaviours
    /\ audit' \in AuditBehaviours
    /\ sync' = NewInvocation
    /\ async' = NewInvocation
    /\ UNCHANGED <<user_id, items, tasks, page, loop>>

\* The item list is kept to one item at most, as in FairInit.
SeqInit == Init /\ Len(items) <= 1

SeqNext == Next \/ NextCall

SeqSpec == SeqInit /\ [][SeqNext]_vars

(* ------------- concurrent invocations on one OrderServiceAsync --------- *)

\* Each task is one create_order coroutine on the same service instance,
\* with its own arguments and with collaborators that answer its calls in
\* their own way.  The tasks interleave at every await.
TaskArguments ==
    { [user_id |-> 1, items |-> <<[price |-> 1]>>],
      [user_id |-> 7, items |-> <<[price |-> 2, qty |-> 2]>>] }

TaskGateways ==
    { Returns([status |-> "approved", payment_id |-> "pay_123"]),
      Returns([status |-> "approved", payment_id |-> "p1"]),
      Returns([status |-> "denied"]) }

TaskRepos == { Returns([id |-> 99, total |-> 25]), Raises("RuntimeError: db down") }

TaskSetups ==
    { [user_id |-> a.user_id, items |-> a.items, gateway |-> g, repo |-> r,
       audit |-> Returns(None), frame |-> NewInvocation] :
        a \in TaskArguments, g \in TaskGateways, r \in TaskRepos }

ConcInit ==
    /\ tasks \in [1..MaxTasks -> TaskSetups]
    /\ user_id = 1
    /\ items = <<>>
    /\ gateway = Returns([status |-> "denied"])
    /\ repo = Raises("RuntimeError: db down")
    /\ audit = Returns(None)
    /\ sync = NewInvocation
    /\ async = NewInvocation
    /\ last = NoOutcome
    /\ page = NoPage
    /\ loop = NotCalled

\* Task t is at pc and goes on to frame f; nothing else changes.
TaskStep(t, pc, f) ==
    /\ tasks[t].frame.pc = pc
    /\ tasks' = [tasks EXCEPT ![t].frame = f]
    /\ UNCHANGED <<Environment, sync, async, last, page, loop>>

TaskTotal ==
    \E t \in DOMAIN tasks :
        TaskStep(t, "Start",
                 async_create_order_total(tasks[t].frame, tasks[t].items))

TaskCallAuthorize ==
    \E t \in DOMAIN tasks :
        TaskStep(t, "TotalComputed",
                 async_create_order_call_authorize(tasks[t].frame,
                                                   tasks[t].user_id))

TaskResumeAuthorize ==
    \E t \in DOMAIN tasks :
        TaskStep(t, "AwaitAuthorize",
                 async_create_order_resume_authorize(tasks[t].frame,
                                                     tasks[t].gateway))

TaskCallDenied ==
    \E t \in DOMAIN tasks :
        TaskStep(t, "Denied",
                 async_create_order_call_denied(tasks[t].frame, tasks[t].user_id))

TaskResumeDenied ==
    \E t \in DOMAIN tasks :
        TaskStep(t, "AwaitTrackDenied",
                 async_create_order_resume_denied(tasks[t].frame, tasks[t].audit))

TaskCallSave ==
    \E t \in DOMAIN tasks :
        TaskStep(t, "Approved",
                 async_create_order_call_save(tasks[t].frame, tasks[t].user_id,
                                              tasks[t].items))

TaskResumeSave ==
    \E t \in DOMAIN tasks :
        TaskStep(t, "AwaitSave",
                 async_create_order_resume_save(tasks[t].frame, tasks[t].repo))

TaskCallCreated ==
    \E t \in DOMAIN tasks :
        TaskStep(t, "Persisted", async_create_order_call_created(tasks[t].frame))

TaskResumeCreated ==
    \E t \in DOMAIN tasks :
        TaskStep(t, "AwaitTrackCreated",
                 async_create_order_resume_created(tasks[t].frame,
                                                   tasks[t].audit))

ConcNext ==
    \/ TaskTotal
    \/ TaskCallAuthorize
    \/ TaskResumeAuthorize
    \/ TaskCallDenied
    \/ TaskResumeDenied
    \/ TaskCallSave
    \/ TaskResumeSave
    \/ TaskCallCreated
    \/ TaskResumeCreated

ConcSpec == ConcInit /\ [][ConcNext]_vars

(* ------------------- click_load_more_until_end ------------------------- *)

\* for _ in range(32)
PollLimit == 32

\* The frame on entry: max_clicks is the argument; i counts the iterations
\* of the outer for begun, clicks the clicks made, polls the polls made since
\* the last click; seen is the last answer of is_visible, prev the card count
\* read before the click, grew whether the last polling ended by break.
Called(max_clicks) ==
    [pc |-> "for", max_clicks |-> max_clicks, i |-> 0, clicks |-> 0,
     seen |-> None, prev |-> 0, polls |-> 0, grew |-> FALSE]

\* for _ in range(max_clicks): page.evaluate(...); page.wait_for_timeout(500)
click_load_more_for(lp) ==
    IF lp.i < lp.max_clicks
    THEN [lp EXCEPT !.i = @ + 1, !.pc = "is_visible"]
    ELSE [lp EXCEPT !.pc = "returned"]

\* try: if not load_more.is_visible(timeout=1500): return
\* except Exception: return
click_load_more_is_visible(lp, answer) ==
    [lp EXCEPT !.seen = answer,
               !.pc = IF answer = "visible" THEN "count" ELSE "returned"]

\* prev = page.locator(card_selector).count()
click_load_more_count(lp, cards) == [lp EXCEPT !.prev = cards, !.pc = "click"]

\* load_more.scroll_into_view_if_needed(); load_more.click();
\* page.wait_for_load_state("networkidle"): an error of one of them leaves
\* the function.
click_load_more_click(lp, done) ==
    IF done
    THEN [lp EXCEPT !.clicks = @ + 1, !.polls = 0, !.grew = FALSE, !.pc = "poll"]
    ELSE [lp EXCEPT !.pc = "raised"]

\* Faulty variant of click_load_more_poll: the else branch of the inner for
\* is missing, so the outer loop goes on after 32 fruitless polls.
click_load_more_poll_no_else(lp, cards) ==
    IF cards > lp.prev
    THEN [lp EXCEPT !.polls = @ + 1, !.grew = TRUE, !.pc = "for"]
    ELSE IF lp.polls + 1 = PollLimit
    THEN [lp EXCEPT !.polls = @ + 1, !.pc = "for"]
    ELSE [lp EXCEPT !.polls = @ + 1]

\* for _ in range(32): page.wait_for_timeout(250)
\*     if page.locator(card_selector).count() > prev: break
\* else: return
click_load_more_poll(lp, cards) ==
    IF cards > lp.prev
    THEN [lp EXCEPT !.polls = @ + 1, !.grew = TRUE, !.pc = "for"]
    ELSE IF lp.polls + 1 = PollLimit
    THEN [lp EXCEPT !.polls = @ + 1, !.pc = "returned"]
    ELSE [lp EXCEPT !.polls = @ + 1]

LoadMoreInit ==
    /\ loop \in {Called(m) : m \in 0..MaxClicks}
    /\ page \in {[cards |-> c] : c \in 0..MaxCards}
    /\ tasks = <<>>
    /\ user_id = 1
    /\ items = <<>>
    /\ gateway = Returns([status |-> "denied"])
    /\ repo = Raises("RuntimeError: db down")
    /\ audit = Returns(None)
    /\ sync = NewInvocation
    /\ async = NewInvocation
    /\ last = NoOutcome

OrderServices == <<Environment, sync, async, last, tasks>>

LoopFor ==
    /\ loop.pc = "for"
    /\ loop' = click_load_more_for(loop)
    /\ UNCHANGED <<page, OrderServices>>

LoopIsVisible ==
    /\ loop.pc = "is_visible"
    /\ \E answer \in {"visible", "hidden", "raises"} :
          loop' = click_load_more_is_visible(loop, answer)
    /\ UNCHANGED <<page, OrderServices>>

LoopCount ==
    /\ loop.pc = "count"
    /\ loop' = click_load_more_count(loop, page.cards)
    /\ UNCHANGED <<page, OrderServices>>

LoopClick ==
    /\ loop.pc = "click"
    /\ \E done \in BOOLEAN : loop' = click_load_more_click(loop, done)
    /\ UNCHANGED <<page, OrderServices>>

LoopPoll ==
    /\ loop.pc = "poll"
    /\ loop' = click_load_more_poll(loop, page.cards)
    /\ UNCHANGED <<page, OrderServices>>

\* The page loads or drops cards on its own while the function runs.
PageChanges ==
    /\ loop.pc \notin {"returned", "raised"}
    /\ \E c \in 0..MaxCards : c # page.cards /\ page' = [page EXCEPT !.cards = c]
    /\ UNCHANGED <<loop, OrderServices>>

LoopStep == LoopFor \/ LoopIsVisible \/ LoopCount \/ LoopClick \/ LoopPoll

LoadMoreNext ==
    \/ LoopFor
    \/ LoopIsVisible
    \/ LoopCount
    \/ LoopClick
    \/ LoopPoll
    \/ PageChanges

\* Every page call of the function returns or raises (Playwright calls carry
\* timeouts), so the function keeps taking steps until it has ended.
LoadMoreSpec == LoadMoreInit /\ [][LoadMoreNext]_vars /\ WF_vars(LoopStep)

(* ------------------------------- C1 ------------------------------------ *)

EmptyItemsRejected(inv) ==
    Len(items) = 0 =>
        /\ inv.calls = <<>>
        /\ inv.pc \in {"Start", "Failed"}
        /\ inv.pc = "Failed" => inv.error = ValueErrorEmpty

\* C1: in both services create_order with an empty item list fails with
\* ValueError "items cannot be empty", and no call of authorize_payment,
\* save_order or track has been made by the invocation when it fails.
C1_EmptyItems == EmptyItemsRejected(sync) /\ EmptyItemsRejected(async)

C1_Witness ==
    /\ Len(items) = 0
    /\ Failed(sync, ValueErrorEmpty)
    /\ Failed(async, ValueErrorEmpty)

(* ------------------------------- C2 ------------------------------------ *)

ExpectedAuthorize(inv) == AuthorizeCall(user_id, inv.total)
ExpectedSave(inv) ==
    SaveCall(user_id, items, inv.total, gateway.value["payment_id"])
ExpectedCreated(inv) ==
    TrackCall("order_created", [order_id |-> inv.order["id"], total |-> inv.total])

\* The claim as written, read for a well-formed authorization result (one
\* that carries a payment_id): approved => saved once, tracked once, order
\* returned.
ApprovedAlwaysCompletes(inv) ==
    (NonEmpty /\ StatusApproved /\ HasPaymentId /\ Done(inv)) =>
        /\ inv.pc = "Completed"
        /\ inv.calls = <<ExpectedAuthorize(inv), ExpectedSave(inv), ExpectedCreated(inv)>>
        /\ inv.result = repo.value

C2_Original == ApprovedAlwaysCompletes(sync) /\ ApprovedAlwaysCompletes(async)

ApprovedPath(inv) ==
    (NonEmpty /\ StatusApproved /\ HasPaymentId /\ Done(inv)) =>
        /\ Count(inv, "save_order") = 1
        /\ inv.calls[2] = ExpectedSave(inv)
        /\ repo.kind = "return" =>
              /\ inv.order = repo.value
              /\ Count(inv, "track") = 1
              /\ inv.calls = <<ExpectedAuthorize(inv), ExpectedSave(inv),
                               ExpectedCreated(inv)>>
              /\ audit.kind = "return" =>
                    inv.pc = "Completed" /\ inv.result = repo.value

\* C2 (amended): for a non-empty item list and an authorization result with
\* status "approved" and a payment_id, save_order is called exactly once with
\* (user_id, items, total, that payment_id); when save_order returns an order,
\* track is then called exactly once with ("order_created", {order_id: the
\* order's id, total}); and when track returns, create_order returns the
\* order save_order returned.
C2_Approved == ApprovedPath(sync) /\ ApprovedPath(async)

C2_Witness ==
    /\ StatusApproved /\ HasPaymentId
    /\ sync.pc = "Completed" /\ sync.result = repo.value
    /\ async.pc = "Completed" /\ async.result = repo.value
    /\ Len(items) = MaxItems

(* ------------------------------- C3 ------------------------------------ *)

ExpectedDenied(inv) ==
    TrackCall("order_denied", [user_id |-> user_id, total |-> inv.total])

\* The claim as written: not approved => one order_denied call, no save,
\* PermissionError.
DeniedAlwaysPermissionError(inv) ==
    (NonEmpty /\ StatusNotApproved /\ Done(inv)) =>
        /\ inv.calls = <<ExpectedAuthorize(inv), ExpectedDenied(inv)>>
        /\ Failed(inv, PermissionDenied)

C3_Original == DeniedAlwaysPermissionError(sync) /\ DeniedAlwaysPermissionError(async)

DeniedPath(inv) ==
    (NonEmpty /\ StatusNotApproved) =>
        /\ Count(inv, "save_order") = 0
        /\ Done(inv) =>
              /\ inv.calls = <<ExpectedAuthorize(inv), ExpectedDenied(inv)>>
              /\ Count(inv, "track") = 1
              /\ Failed(inv, IF audit.kind = "return" THEN PermissionDenied
                                                      ELSE audit.error)

\* C3 (amended): for a non-empty item list and an authorization result whose
\* status is not "approved", exactly one audit call is made, with event
\* "order_denied" and payload {user_id, total}; save_order is never called;
\* and create_order fails, with PermissionError "payment not approved" when
\* track returns and with track's own error when track raises.
C3_Denied == DeniedPath(sync) /\ DeniedPath(async)

C3_Witness ==
    /\ StatusNotApproved
    /\ Failed(sync, PermissionDenied) /\ Count(sync, "track") = 1
    /\ Failed(async, PermissionDenied) /\ Count(async, "track") = 1

(* ------------------------------- C4 ------------------------------------ *)

AllowedHistories ==
    { <<>>,
      <<"authorize_payment">>,
      <<"authorize_payment", "order_denied">>,
      <<"authorize_payment", "save_order">>,
      <<"authorize_payment", "save_order", "order_created">> }

\* A collaborator that raised was the last one called.
NoCallAfterFailure(inv) ==
    /\ gateway.kind = "raise" => Len(inv.calls) <= 1
    /\ (StatusApproved /\ repo.kind = "raise") => Len(inv.calls) <= 2
    /\ (inv.pc = "Failed" /\ Len(inv.calls) > 0 /\ audit.kind = "raise"
            /\ inv.error = audit.error) =>
          inv.calls[Len(inv.calls)].fn = "track"

\* C4: the calls of one invocation occur in the order authorize_payment,
\* save_order, track("order_created"): its history is always one of [],
\* [authorize], [authorize, track order_denied], [authorize, save],
\* [authorize, save, track order_created], and no call follows a failed one.
C4_CallOrder ==
    /\ History(sync) \in AllowedHistories /\ NoCallAfterFailure(sync)
    /\ History(async) \in AllowedHistories /\ NoCallAfterFailure(async)

C4_Witness ==
    /\ History(sync) = <<"authorize_payment", "save_order", "order_created">>
    /\ History(async) = <<"authorize_payment", "save_order">>
    /\ repo.kind = "return"

(* ------------------------------- C5 ------------------------------------ *)

GatewayFailure(inv) ==
    (NonEmpty /\ gateway.kind = "raise") =>
        /\ Count(inv, "save_order") = 0
        /\ Count(inv, "track") = 0
        /\ Done(inv) =>
              /\ Failed(inv, gateway.error)
              /\ inv.calls = <<ExpectedAuthorize(inv)>>

\* C5: if authorize_payment raises, create_order fails with that same error
\* and neither save_order nor track is called by the invocation.
C5_GatewayFailure == GatewayFailure(sync) /\ GatewayFailure(async)

C5_Witness ==
    /\ gateway.kind = "raise"
    /\ Failed(sync, gateway.error) /\ Count(sync, "authorize_payment") = 1
    /\ Failed(async, gateway.error) /\ Count(async, "authorize_payment") = 1

(* ------------------------------- C6 ------------------------------------ *)

RepoFailure(inv) ==
    (NonEmpty /\ StatusApproved /\ HasPaymentId /\ repo.kind = "raise") =>
        /\ Count(inv, "track") = 0
        /\ Count(inv, "authorize_payment") <= 1
        /\ Done(inv) =>
              /\ Failed(inv, repo.error)
              /\ inv.calls = <<ExpectedAuthorize(inv), ExpectedSave(inv)>>

\* C6: if authorization was approved and save_order raises, create_order
\* fails with that same error, track is never called, and authorize_payment
\* has been called exactly once: no further gateway call is made.
C6_RepoFailure == RepoFailure(sync) /\ RepoFailure(async)

C6_Witness ==
    /\ StatusApproved /\ repo.kind = "raise"
    /\ Failed(sync, repo.error) /\ Count(sync, "save_order") = 1
    /\ Failed(async, repo.error) /\ Count(async, "save_order") = 1

(* ------------------------------- C7 ------------------------------------ *)

\* The total a recorded call carries.
CallTotal(c) ==
    IF c.fn = "authorize_payment" THEN c.amount
    ELSE IF c.fn = "save_order" THEN c.total
    ELSE c.payload.total

\* Every call made so far carries the invocation's total.
TotalReused(inv) ==
    inv.calls # <<>> =>
        /\ Bound(inv, "total")
        /\ \A k \in DOMAIN inv.calls : CallTotal(inv.calls[k]) = inv.total

\* total is bound once, while no call has been made, and never rebound.
TotalBoundOnce(inv, next) ==
    /\ Bound(inv, "total") => Bound(next, "total") /\ next.total = inv.total
    /\ (~ Bound(inv, "total") /\ Bound(next, "total")) =>
          inv.calls = <<>> /\ next.calls = <<>>

\* C7: within one invocation the total is computed once, before any
\* collaborator call, and that same value is the amount of authorize_payment,
\* the total of save_order and the total of the tracked event's payload.
C7_TotalOnce ==
    [][ /\ TotalBoundOnce(sync, sync') /\ TotalReused(sync')
        /\ TotalBoundOnce(async, async') /\ TotalReused(async') ]_vars

C7_Witness ==
    /\ Len(sync.calls) = 3 /\ Len(async.calls) = 3
    /\ \E k \in DOMAIN items : Bound(items[k], "qty") /\ items[k].qty > 1

(* ------------------------------- C8 ------------------------------------ *)

\* The sum of price x qty over the first n items, qty counting as 1 when the
\* item has none.
RECURSIVE SigmaPriceQty(_, _)
SigmaPriceQty(its, n) ==
    IF n = 0 THEN 0
    ELSE (IF "qty" \in DOMAIN its[n] THEN its[n].price * its[n].qty
                                     ELSE its[n].price)
         + SigmaPriceQty(its, n - 1)

AuthorizedAmountIsSum(inv) ==
    \A k \in DOMAIN inv.calls :
        inv.calls[k].fn = "authorize_payment" =>
            inv.calls[k].amount = SigmaPriceQty(items, Len(items))

\* C8: for a non-empty item list the amount passed to authorize_payment is
\* the sum over the items of price x qty, an item without qty counting as
\* qty = 1.
C8_Amount == AuthorizedAmountIsSum(sync) /\ AuthorizedAmountIsSum(async)

C8_Witness ==
    /\ Count(sync, "authorize_payment") = 1
    /\ Count(async, "authorize_payment") = 1
    /\ \E j, k \in DOMAIN items :
          /\ ~ Bound(items[j], "qty")
          /\ Bound(items[k], "qty") /\ items[k].qty > 1

(* ------------------------------- C9 ------------------------------------ *)

\* The claim as written: every invocation, whatever its arguments, makes
\* exactly one authorize_payment call.
OneAuthorizeAlways(inv) ==
    Done(inv) =>
        /\ Count(inv, "authorize_payment") = 1
        /\ Count(inv, "save_order") <= 1
        /\ Count(inv, "track") <= 1

C9_Original == OneAuthorizeAlways(sync) /\ OneAuthorizeAlways(async)

CallCounts(inv) ==
    /\ Count(inv, "authorize_payment") <= 1
    /\ Count(inv, "save_order") <= 1
    /\ Count(inv, "track") <= 1
    /\ Done(inv) =>
          Count(inv, "authorize_payment") = IF NonEmpty THEN 1 ELSE 0

\* C9 (amended): every invocation with a non-empty item list, whatever the
\* collaborators return or raise, makes exactly one authorize_payment call,
\* and an invocation with an empty item list makes none; every invocation
\* makes at most one save_order call and at most one track call, and never
\* repeats a collaborator call.
C9_CallCounts == CallCounts(sync) /\ CallCounts(async)

C9_Witness ==
    /\ Done(sync) /\ Done(async)
    /\ Count(sync, "authorize_payment") = 1 /\ Count(async, "authorize_payment") = 1
    /\ gateway.kind = "raise"

(* ------------------------------- C10 ----------------------------------- *)

IsPrefix(s, t) == Len(s) <= Len(t) /\ \A k \in DOMAIN s : s[k] = t[k]

SameOutcome(a, b) ==
    /\ a.pc = b.pc
    /\ a.pc = "Failed" => a.error = b.error
    /\ a.pc = "Completed" => a.result = b.result

\* C10: for the same user_id, items and collaborator behaviour the two
\* services make the same sequence of collaborator calls with the same
\* arguments and end with the same returned order or the same error.
C10_Equivalent ==
    /\ IsPrefix(sync.calls, async.calls) \/ IsPrefix(async.calls, sync.calls)
    /\ Done(sync) => IsPrefix(async.calls, sync.calls)
    /\ Done(async) => IsPrefix(sync.calls, async.calls)
    /\ (Done(sync) /\ Done(async)) => SameOutcome(sync, async)

C10_Witness ==
    /\ sync.pc = "Completed" /\ async.pc = "Completed"
    /\ Len(sync.calls) = 3 /\ sync.calls = async.calls
    /\ sync.result = async.result

(* ------------------------------- C13 ----------------------------------- *)

PaymentAttempted(inv) ==
    (Done(inv) /\ ~ Failed(inv, ValueErrorEmpty)) =>
        Count(inv, "authorize_payment") = 1

\* C13: whenever create_order ends in any outcome other than the empty-items
\* ValueError (the order returned, PermissionError, or any other error),
\* authorize_payment was called by that invocation.
C13_PaymentAttempted == PaymentAttempted(sync) /\ PaymentAttempted(async)

C13_Witness ==
    /\ Done(sync) /\ Done(async)
    /\ sync.pc = "Failed" /\ sync.error = "KeyError: 'payment_id'"
    /\ Count(sync, "authorize_payment") = 1
    /\ Count(async, "authorize_payment") = 1

(* ------------------------------- C14 ----------------------------------- *)

AuditFailure(inv) ==
    (NonEmpty /\ audit.kind = "raise" /\ Done(inv)) =>
        /\ StatusNotApproved =>
              /\ Failed(inv, audit.error)
              /\ Count(inv, "track") = 1
              /\ Count(inv, "save_order") = 0
        /\ (StatusApproved /\ HasPaymentId /\ repo.kind = "return") =>
              /\ Failed(inv, audit.error)
              /\ ~ Bound(inv, "result")
              /\ Count(inv, "track") = 1
              /\ Count(inv, "save_order") = 1
              /\ inv.order = repo.value

\* C14: an error raised by track propagates to the caller unchanged.  On the
\* denied path the caller gets it after exactly one track call and no
\* save_order call; on the approved path the caller gets it and no order is
\* returned, although save_order has completed once.
C14_AuditFailure == AuditFailure(sync) /\ AuditFailure(async)

C14_Witness ==
    /\ audit.kind = "raise" /\ StatusApproved
    /\ Failed(sync, audit.error) /\ Count(sync, "save_order") = 1
    /\ Failed(async, audit.error) /\ Count(async, "save_order") = 1

C14_WitnessDenied ==
    /\ audit.kind = "raise" /\ StatusNotApproved
    /\ Failed(sync, audit.error) /\ Failed(async, audit.error)

(* ------------------------------- C16 ----------------------------------- *)

\* The status is absent or is a string other than exactly "approved".
InexactStatus ==
    /\ GatewayReturned
    /\ Get(gateway.value, "status") \in {None, "Approved", "denied"}

\* The claim as written: such a result always ends in PermissionError.
InexactAlwaysPermissionError(inv) ==
    (NonEmpty /\ InexactStatus /\ Done(inv)) =>
        /\ History(inv) = <<"authorize_payment", "order_denied">>
        /\ Failed(inv, PermissionDenied)

C16_Original ==
    InexactAlwaysPermissionError(sync) /\ InexactAlwaysPermissionError(async)

InexactDenied(inv) ==
    (NonEmpty /\ InexactStatus) =>
        /\ inv.pc \notin {"Approved", "AwaitSave", "Persisted",
                          "AwaitTrackCreated", "Completed"}
        /\ Count(inv, "save_order") = 0
        /\ Done(inv) =>
              /\ History(inv) = <<"authorize_payment", "order_denied">>
              /\ Failed(inv, IF audit.kind = "return" THEN PermissionDenied
                                                      ELSE audit.error)

\* C16 (amended): the approval test is exact string equality: a result whose
\* status is absent or is any value other than exactly "approved" ("Approved",
\* "denied") takes the denial path, even if it carries a payment_id: one
\* "order_denied" audit call, no save_order, then PermissionError, or the
\* error of track when track raises.
C16_ExactStatus == InexactDenied(sync) /\ InexactDenied(async)

C16_Witness ==
    /\ GatewayReturned /\ Get(gateway.value, "status") = "Approved"
    /\ Bound(gateway.value, "payment_id")
    /\ Failed(sync, PermissionDenied) /\ Failed(async, PermissionDenied)

C16_WitnessAbsent ==
    /\ GatewayReturned /\ ~ Bound(gateway.value, "status")
    /\ Failed(sync, PermissionDenied) /\ Failed(async, PermissionDenied)

(* ------------------------------- C17 ----------------------------------- *)

MissingPaymentId(inv) ==
    (NonEmpty /\ StatusApproved /\ ~ HasPaymentId) =>
        /\ Count(inv, "save_order") = 0
        /\ Count(inv, "track") = 0
        /\ Done(inv) =>
              /\ Failed(inv, "KeyError: 'payment_id'")
              /\ ~ Bound(inv, "result")
              /\ inv.calls = <<ExpectedAuthorize(inv)>>

\* C17: if the gateway returns status "approved" without a payment_id,
\* create_order fails with a lookup error of its own before save_order is
\* called: one authorize_payment call, no save_order, no track, no order.
C17_MissingPaymentId == MissingPaymentId(sync) /\ MissingPaymentId(async)

C17_Witness ==
    /\ StatusApproved /\ ~ HasPaymentId
    /\ Failed(sync, "KeyError: 'payment_id'")
    /\ Failed(async, "KeyError: 'payment_id'")

(* ------------------------------- C15 ----------------------------------- *)

\* How far an invocation has come.
Rank(inv) ==
    CASE inv.pc = "Start" -> 0
      [] inv.pc = "TotalComputed" -> 1
      [] inv.pc = "AwaitAuthorize" -> 2
      [] inv.pc \in {"Approved", "Denied"} -> 3
      [] inv.pc \in {"AwaitSave", "AwaitTrackDenied"} -> 4
      [] inv.pc = "Persisted" -> 5
      [] inv.pc = "AwaitTrackCreated" -> 6
      [] inv.pc \in {"Completed", "Failed"} -> 7

Awaiting(inv) ==
    inv.pc \in {"AwaitAuthorize", "AwaitTrackDenied", "AwaitSave",
                "AwaitTrackCreated"}

\* An invocation that has not ended can take a step, makes at most three
\* calls, and is suspended only with a call of its own pending.
NeverStuck ==
    /\ ~ Done(sync) => ENABLED SyncStep
    /\ ~ Done(async) => ENABLED AsyncStep
    /\ Len(sync.calls) <= 3 /\ Len(async.calls) <= 3
    /\ ~ Awaiting(sync)
    /\ Awaiting(async) => Len(async.calls) > 0

\* Every step of an invocation takes it forward: no state is revisited.
Advances(inv, next) == next # inv => Rank(next) > Rank(inv)

\* C15: every create_order invocation eventually returns the order or
\* raises, provided each collaborator call it makes returns or raises; it
\* makes at most three collaborator calls, never goes back to an earlier
\* point, and waits on nothing but a pending collaborator call.
C15_Terminates ==
    /\ []NeverStuck
    /\ [][Advances(sync, sync') /\ Advances(async, async')]_vars
    /\ <>[](Done(sync) /\ Done(async))

C15_Witness ==
    /\ sync.pc = "Completed" /\ async.pc = "Completed"
    /\ Len(sync.calls) = 3 /\ Len(async.calls) = 3

(* ------------------------------- C11 ----------------------------------- *)

\* What create_order(uid, its) does and how it ends when the collaborators
\* behave as gw, rp and au, read off the code case by case: the calls, the
\* final state, and the error raised or the order returned.
Alone(uid, its, gw, rp, au) ==
    LET total == SigmaPriceQty(its, Len(its))
        a == AuthorizeCall(uid, total)
        d == TrackCall("order_denied", [user_id |-> uid, total |-> total])
    IN  IF Len(its) = 0
        THEN [calls |-> <<>>, pc |-> "Failed", end |-> ValueErrorEmpty]
        ELSE IF gw.kind = "raise"
        THEN [calls |-> <<a>>, pc |-> "Failed", end |-> gw.error]
        ELSE IF Get(gw.value, "status") # "approved"
        THEN [calls |-> <<a, d>>, pc |-> "Failed",
              end |-> IF au.kind = "raise" THEN au.error ELSE PermissionDenied]
        ELSE IF ~ Bound(gw.value, "payment_id")
        THEN [calls |-> <<a>>, pc |-> "Failed", end |-> "KeyError: 'payment_id'"]
        ELSE LET s == SaveCall(uid, its, total, gw.value["payment_id"])
             IN  IF rp.kind = "raise"
                 THEN [calls |-> <<a, s>>, pc |-> "Failed", end |-> rp.error]
                 ELSE LET c == TrackCall("order_created",
                                         [order_id |-> rp.value["id"],
                                          total |-> total])
                      IN  IF au.kind = "raise"
                          THEN [calls |-> <<a, s, c>>, pc |-> "Failed",
                                end |-> au.error]
                          ELSE [calls |-> <<a, s, c>>, pc |-> "Completed",
                                end |-> rp.value]

\* The invocation has made no call that Alone does not make, and once ended
\* it has made them all and ended the same way.
AsAlone(inv, alone) ==
    /\ IsPrefix(inv.calls, alone.calls)
    /\ Done(inv) =>
          /\ inv.calls = alone.calls
          /\ inv.pc = alone.pc
          /\ inv.pc = "Failed" => inv.error = alone.end
          /\ inv.pc = "Completed" => inv.result = alone.end

\* After a denied invocation, an approved one saves, tracks and returns.
ApprovedAfterDenied(inv, before) ==
    (/\ before = PermissionDenied
     /\ NonEmpty /\ StatusApproved /\ HasPaymentId
     /\ repo.kind = "return" /\ audit.kind = "return"
     /\ Done(inv)) =>
        /\ Count(inv, "save_order") = 1
        /\ Count(inv, "track") = 1
        /\ inv.calls[3] = ExpectedCreated(inv)
        /\ inv.pc = "Completed" /\ inv.result = repo.value

Stateless ==
    /\ AsAlone(sync, Alone(user_id, items, gateway, repo, audit))
    /\ AsAlone(async, Alone(user_id, items, gateway, repo, audit))
    /\ ApprovedAfterDenied(sync, last.sync)
    /\ ApprovedAfterDenied(async, last.async)

TaskAlone(t) ==
    Alone(tasks[t].user_id, tasks[t].items, tasks[t].gateway, tasks[t].repo,
          tasks[t].audit)

\* C12: when several create_order invocations run concurrently on the same
\* OrderServiceAsync and interleave at their awaits in any order, each makes
\* the calls, with its own user_id, items, total and payment_id, and reaches
\* the outcome it would when run alone with the same collaborator responses.
C12_Independent ==
    \A t \in DOMAIN tasks : AsAlone(tasks[t].frame, TaskAlone(t))

\* Two tasks with different arguments and payment ids, one suspended between
\* the other's calls, both past save_order.
C12_Witness ==
    /\ tasks[1].user_id # tasks[2].user_id
    /\ tasks[1].gateway # tasks[2].gateway
    /\ tasks[1].frame.pc = "Completed"
    /\ tasks[2].frame.pc = "AwaitSave"
    /\ tasks[1].frame.calls[2].payment_id # tasks[2].frame.calls[2].payment_id

(* ------------------------------- C18 ----------------------------------- *)

LoopEnded == loop.pc \in {"returned", "raised"}

LoopBounded ==
    /\ loop.clicks <= loop.max_clicks
    /\ loop.polls <= PollLimit
    /\ loop.seen \in {"hidden", "raises"} => loop.pc = "returned"

\* A step that clicks: the button was seen visible, and any click after the
\* first follows a polling that saw the card count above its value before
\* the previous click.
ClicksAfterGrowth ==
    loop'.clicks # loop.clicks =>
        /\ loop'.clicks = loop.clicks + 1
        /\ loop.seen = "visible"
        /\ loop.clicks > 0 => loop.grew

\* A visibility check that answers "not visible" or raises ends the
\* function with no further click.
ReturnsWhenNotVisible ==
    (loop.pc = "is_visible" /\ loop'.seen # "visible" /\ loop' # loop) =>
        loop'.pc = "returned" /\ loop'.clicks = loop.clicks

\* The 32nd poll that still sees no more cards than before the click ends
\* the function.
ReturnsWhenNoGrowth ==
    (loop.pc = "poll" /\ loop' # loop /\ loop.polls = PollLimit - 1
        /\ page.cards <= loop.prev) =>
        loop'.pc = "returned"

\* C18: click_load_more_until_end always terminates: it clicks at most
\* max_clicks times, returns without clicking as soon as the button is not
\* visible or the visibility check raises, returns after a click when the
\* card count has not grown above its pre-click value within 32 polls, and
\* clicks again only after a click followed by such growth.
C18_LoadMoreTerminates ==
    /\ []LoopBounded
    /\ [][ClicksAfterGrowth /\ ReturnsWhenNotVisible /\ ReturnsWhenNoGrowth]_vars
    /\ <>[]LoopEnded

C18_Witness ==
    /\ loop.pc = "returned"
    /\ loop.max_clicks = MaxClicks
    /\ loop.clicks = MaxClicks
    /\ loop.grew

C18_WitnessNoGrowth ==
    /\ loop.pc = "returned"
    /\ loop.clicks = 1
    /\ loop.polls = PollLimit
    /\ ~ loop.grew

====
